---------------------------- MODULE Spec2Model ----------------------------
(***************************************************************************)
(* A model of the "mirror" compile-time reflection facility                *)
(* (src/src/mirror.cc, src/src/mirror.hh, src/meta/mirror.hh).             *)
(*                                                                         *)
(* One behaviour is one use of the facility: a translation unit names a    *)
(* type T and one of the three operations (the concept reflexible<T>, the  *)
(* variable template data_member_count<T>, the function reflect(x)) in one *)
(* of the two shipped variants.  The compiler checks the constraint,       *)
(* instantiates count_data_members and the chain of bisect<T, L, M, R>     *)
(* instantiations, checks reflect's requires-clause and instantiates the   *)
(* selected branch; the program then runs: it calls reflect and may read   *)
(* or write through the references of the returned tuple.                  *)
(***************************************************************************)
EXTENDS Integers, Sequences, FiniteSets, TLC

VARIABLES
    T,        \* the type: its declaration as the compiler sees it
    limit,    \* the ceiling of the variant in use (requires-clause of reflect)
    op,       \* the operation the usage site names
    pc,       \* where the compilation / the program is
    diag,     \* the diagnostic of a compile-time failure, "none" otherwise
    answer,   \* the value of reflexible<T> once evaluated: "none", "true", "false"
    L, M, R,  \* template arguments of the current bisect<T, L, M, R>
    probes,   \* the lengths N at which is_constructible<T, N> was instantiated
    count,    \* data_member_count<T> once computed, -1 before
    x,        \* the instance: storage unit -> value
    r1, r2,   \* the tuples returned by the first and second reflect(x)
    calls,    \* number of reflect(x) calls that have returned
    writes,   \* number of assignments made through r1
    last,     \* the last assignment through r1: element, value, x before it
    conv      \* a conversion of a probe universal<T, I>: target, slot, result

vars == <<T, limit, op, pc, diag, answer, L, M, R, probes, count, x, r1, r2,
          calls, writes, last, conv>>

----------------------------------------------------------------------------
(* Bounds of the model.                                                    *)

\* Objects of great size have a sizeof within MaxOffset of a multiple of
\* 2^SizeWidth / CHAR_BIT, where sizeof(T) * CHAR_BIT wraps around.
MaxOffset == 4

\* A type known by its verdicts alone has arbitrary verdicts for the lengths
\* 1..MaxAccepted and is not constructible from more probes.
MaxAccepted == 8

\* The probes converted on their own have the slot indices 0..MaxSlot.
MaxSlot == 1

\* Types of every kind (aggregate or not, constructible or not) have
\* 0..MaxMembers members; ordinary structs have every member count up to one
\* past the larger ceiling.
MaxMembers == 4

\* Types with array members have at most this many members ...
MaxArrayMembers == 2

\* ... each an array of at most this many elements (1: not an array).
MaxExtent == 2

\* sizeof(T) is the smallest size the members need plus 0..MaxPadding bytes.
MaxPadding == 1

\* Width of size_t in the model (the arithmetic of the code is modulo
\* 2^SizeWidth).
SizeWidth == 16

\* Assignments made through the returned references in one run.
MaxWrites == 2

\* Number of distinct values assigned through the references.
MaxNewValues == 1

\* Member counts of the types whose instances are written through.
MaxRunMembers == 3

----------------------------------------------------------------------------
(* Program constants.                                                      *)

\* requires(data_member_count<T> <= 32), src/src/mirror.cc
LimitModule == 32

\* requires(data_member_count<T> <= 127), src/src/mirror.hh
LimitHeader == 127

\* <climits>, used by count_data_members
CHAR_BIT == 8

Limits == {LimitModule, LimitHeader}

Ops == {"is_reflexible", "member_count", "reflect"}

SizeMod == 2 ^ SizeWidth

----------------------------------------------------------------------------
(* Types.  A type is described by what the facility can observe of it.     *)
(*   user_ctor     it has a user-declared (or inherited) constructor       *)
(*   non_public    it has a private/protected member, a virtual function   *)
(*                 or a virtual/non-public base                            *)
(*   default_init  std::default_initializable<T>                           *)
(*   copy_ctor     std::copy_constructible<T>                              *)
(*   move_ctor     std::move_constructible<T>                              *)
(*   extents       one entry per declared non-static data member, in       *)
(*                 declaration order: the number of array elements of an   *)
(*                 array member, 1 for a member that is not an array       *)
(*   bit_fields    its non-array members are bit-fields of width 1         *)
(*   no_unique     its members are [[no_unique_address]] members of        *)
(*                 distinct empty class types: they take no storage of     *)
(*                 their own and may all share one address                 *)
(*   size          sizeof(T)                                               *)

Max(a, b) == IF a >= b THEN a ELSE b

CeilDiv(a, b) == (a + b - 1) \div b

\* Number of declared non-static data members.
MemberCount(t) == Len(t.extents)

\* Storage units of an instance: one per member, and one more for every
\* further element of an array member (the pairs <<member, element>>).
Units(e) ==
    Len(e) +
    Cardinality({p \in {j \in 1..Len(e) : e[j] > 1} \X (2..MaxExtent) :
                    p[2] <= e[p[1]]})

Scalars(e) == Cardinality({j \in 1..Len(e) : e[j] = 1})

\* The least sizeof a type of this shape can have: every byte-addressable
\* element takes at least one byte, every bit-field at least one bit, and no
\* complete object type has size 0.
MinSize(e, bf) ==
    IF bf THEN Max(1, (Units(e) - Scalars(e)) + CeilDiv(Scalars(e), CHAR_BIT))
          ELSE Max(1, Units(e))

\* sizeof of a type of this shape with p bytes of padding: members that are
\* [[no_unique_address]] and empty add nothing to the one byte every object
\* has.
SizeOf(e, bf, nu, p) == (IF nu THEN 1 ELSE MinSize(e, bf)) + p

Traits ==
    {t \in [user_ctor : BOOLEAN, non_public : BOOLEAN, default_init : BOOLEAN,
            copy_ctor : BOOLEAN, move_ctor : BOOLEAN] :
        \* std::copy_constructible subsumes std::move_constructible
        t.copy_ctor => t.move_ctor}

ScalarLayouts(counts) == {[j \in 1..k |-> 1] : k \in counts}

ArrayLayouts == UNION {[1..k -> 1..MaxExtent] : k \in 1..MaxArrayMembers}

\* How the members are stored: as bytes, as bit-fields, or not at all.
Packings == {<<FALSE, FALSE>>, <<TRUE, FALSE>>, <<FALSE, TRUE>>}

MakeType(t, e, pk, p) ==
    [user_ctor |-> t.user_ctor, non_public |-> t.non_public,
     default_init |-> t.default_init, copy_ctor |-> t.copy_ctor,
     move_ctor |-> t.move_ctor, extents |-> e, bit_fields |-> pk[1],
     no_unique |-> pk[2], size |-> SizeOf(e, pk[1], pk[2], p)]

TypesOver(traits, layouts) ==
    {MakeType(t, e, pk, p) :
        t \in traits, e \in layouts, pk \in Packings, p \in 0..MaxPadding}

\* An ordinary struct: no constructors, public members, copyable.
PlainTraits ==
    [user_ctor |-> FALSE, non_public |-> FALSE, default_init |-> TRUE,
     copy_ctor |-> TRUE, move_ctor |-> TRUE]

WellFormed(t) ==
    /\ t.bit_fields => Scalars(t.extents) >= 1
    /\ t.no_unique => (Len(t.extents) >= 1 /\ Scalars(t.extents) = Len(t.extents))

\* Every member count up to one past the larger ceiling.
MemberCounts == 0..(LimitHeader + 1)

Types ==
    {t \in TypesOver(Traits, ScalarLayouts(0..MaxMembers) \cup ArrayLayouts)
            \cup TypesOver({PlainTraits}, ScalarLayouts(MemberCounts)) :
        WellFormed(t)}

\* Types whose instances hold values that can be assigned.
RunTypes ==
    {t \in TypesOver(Traits,
                     ScalarLayouts(0..MaxRunMembers) \cup ArrayLayouts) :
        WellFormed(t) /\ ~t.no_unique}

----------------------------------------------------------------------------
(* The concept reflexible.                                                 *)

\* Mutant of is_aggregate_v: constructors are not looked at.
is_aggregate_lax(t) == ~t.non_public

\* std::is_aggregate_v<T>: no user-declared or inherited constructors, no
\* private or protected direct non-static data members, no virtual
\* functions, no virtual, private or protected base classes.
is_aggregate_v(t) == ~t.user_ctor /\ ~t.non_public

default_initializable(t) == t.default_init

copy_constructible(t) == t.copy_ctor

move_constructible(t) == t.move_ctor

\* Mutant of reflexible: copy- and move-constructibility are both required.
reflexible_both(t) ==
    (is_aggregate_v(t) /\ default_initializable(t)) /\
    (copy_constructible(t) /\ move_constructible(t))

reflexible(t) ==
    (is_aggregate_v(t) /\ default_initializable(t)) /\
    (copy_constructible(t) \/ move_constructible(t))

\* Mutant of constraint: "template <typename T>".
unconstrained(t) == TRUE

\* "template <reflexible T>": the constraint of data_member_count and of
\* reflect.
constraint(t) == reflexible(t)

----------------------------------------------------------------------------
(* The probe universal<T, I>.                                              *)

\* The types a conversion of a probe can be asked for: T itself ("T"),
\* another class type, a scalar type, a pointer type (to T or to anything
\* else), an array type, a function type and void, with the cv-qualifiers
\* and the reference the language allows on them.
Bases == {"T", "class", "scalar", "pointer", "array", "function", "void"}

Cvs == {"none", "const", "volatile", "const volatile"}

RefKinds == {"none", "lvalue", "rvalue"}

Targets ==
    {u \in [base : Bases, cv : Cvs, ref : RefKinds] :
        /\ u.base = "void" => u.ref = "none"
        /\ u.base = "function" => u.cv = "none"}

\* std::remove_cvref_t<U>
remove_cvref_t(u) == [base |-> u.base, cv |-> "none", ref |-> "none"]

\* The template argument U the compiler deduces for "operator U()" when a
\* conversion to the type u is asked for: the reference and the top-level
\* cv-qualifiers of u are left out.
deduced(u) == remove_cvref_t(u)

\* requires(!std::same_as<T, std::remove_cvref_t<U>>)
universal_requires(U) == remove_cvref_t(U).base # "T"

\* A probe universal<T, I> converts implicitly to the type u: a conversion to
\* void uses no conversion function; a function cannot return an array or a
\* function, so no specialization "operator U()" exists for such U; the
\* requires-clause leaves out U = T; the prvalue the operator returns binds
\* to an rvalue reference and to an lvalue reference to const only.
universal_converts(u) ==
    /\ u.base # "void"
    /\ deduced(u).base \notin {"array", "function"}
    /\ universal_requires(deduced(u))
    /\ u.ref = "lvalue" => u.cv = "const"

\* No conversion of a probe on its own is asked for.
NoConv ==
    [target |-> [base |-> "void", cv |-> "none", ref |-> "none"],
     slot |-> 0, result |-> "none"]

----------------------------------------------------------------------------
(* Counting.                                                               *)

\* T{u_0, ..., u_(n-1)} with u_i = declval<universal<T, i>>(): aggregate
\* initialization hands the initializers to the members in declaration
\* order.  universal<T, i> converts to any type that is not T, so a member
\* that is not an array takes one initializer; no conversion function yields
\* an array, so for an array member the braces are elided and its elements
\* take one initializer each.  The result is the number of initializers left
\* over after the last member has taken its share.
LeftOver(e, n) == IF n > Units(e) THEN n - Units(e) ELSE 0

\* Mutant of constructible_from: the conversion operator of universal has no
\* requires-clause, so a single probe also converts to T itself.
constructible_from_unguarded(t, Indices) ==
    Len(Indices) = 1 \/ LeftOver(t.extents, Len(Indices)) = 0

\* A type of which only the verdicts of the compiler are known carries them
\* in a field of its own.
Opaque(t) == "accepts" \in DOMAIN t

\* concept constructible_from<T, Indices...>: the braced initialization is
\* well-formed, i.e. there are not more initializers than elements; for a
\* type known by its verdicts alone, the verdict of the compiler (T{} is
\* well-formed for every default-initializable aggregate).
constructible_from(t, Indices) ==
    IF Opaque(t)
    THEN Len(Indices) = 0 \/ Len(Indices) \in t.accepts
    ELSE LeftOver(t.extents, Len(Indices)) = 0

\* std::make_index_sequence<N>
make_index_sequence(N) == [i \in 1..N |-> i - 1]

is_constructible(t, N) == constructible_from(t, make_index_sequence(N))

\* size_t arithmetic
Wrap(n) == n % SizeMod

\* Mutant of median: (L + R + 1) / 2 in size_t arithmetic.
median_naive(l, r) == Wrap(Wrap(l + r) + 1) \div 2

\* Mutant of median: the right end instead of the midpoint.
median_high(l, r) == r

\* Mutant of median: the midpoint is rounded down.
median_floor(l, r) ==
    Wrap(Wrap((l \div 2) + (r \div 2)) + (((l % 2) + (r % 2)) \div 2))

median(l, r) ==
    Wrap(Wrap((l \div 2) + (r \div 2)) + ((1 + (l % 2) + (r % 2)) \div 2))

\* Mutant of bisect: a failed probe keeps M as the right end.
bisect_keep_m(t, l, m, r) ==
    IF is_constructible(t, m)
    THEN <<m, median(m, r), r>>
    ELSE <<l, median(l, m), m>>

\* Mutant of bisect: the two branches are exchanged.
bisect_inverted(t, l, m, r) ==
    IF ~is_constructible(t, m)
    THEN <<m, median(m, r), r>>
    ELSE <<l, median(l, Wrap(m - 1)), Wrap(m - 1)>>

\* The instantiation bisect<T, L, M, R> names when L # R.
bisect(t, l, m, r) ==
    IF is_constructible(t, m)
    THEN <<m, median(m, r), r>>
    ELSE <<l, median(l, Wrap(m - 1)), Wrap(m - 1)>>

\* The value the call bisect<T, L, M, R>() returns.
RECURSIVE bisect_value(_, _, _, _)
bisect_value(t, l, m, r) ==
    IF l = r THEN l
    ELSE LET next == bisect(t, l, m, r)
         IN  bisect_value(t, next[1], next[2], next[3])

bit_size(t) == Wrap(t.size * CHAR_BIT)

\* Mutant of static_assert_holds: the assertion is missing.
static_assert_off(t) == TRUE

\* static_assert(bit_size / sizeof(T) == CHAR_BIT)
static_assert_holds(t) == bit_size(t) \div t.size = CHAR_BIT

----------------------------------------------------------------------------
(* Initial states.                                                         *)

NoWrite == [elem |-> 0, value |-> 0, before |-> <<>>]

\* The instance x is value-initialized by its owner; storage unit u holds
\* the distinguishable value u.
InitInstance(t) == [u \in 1..Units(t.extents) |-> u]

InitOver(types) ==
    /\ T \in types
    /\ limit \in Limits
    /\ op \in Ops
    /\ pc = "start"
    /\ diag = "none"
    /\ answer = "none"
    /\ L = 0 /\ M = 0 /\ R = 0
    /\ probes = <<>>
    /\ count = -1
    /\ x = InitInstance(T)
    /\ r1 = <<>> /\ r2 = <<>>
    /\ calls = 0
    /\ writes = 0
    /\ last = NoWrite
    /\ conv = NoConv

Init == InitOver(Types)

----------------------------------------------------------------------------
(* The function reflect.                                                   *)

\* The last branch "else if constexpr(data_member_count<T> == N)" of the
\* chain, src/src/mirror.cc
LastBranchModule == 32

\* The same, src/src/mirror.hh
LastBranchHeader == 127

\* The value the last branch of the variant's chain tests.
LastBranch(lim) ==
    IF lim = LimitModule THEN LastBranchModule ELSE LastBranchHeader

\* Mutant of chain: the last branch is missing.
chain_short(lim) == [p \in 1..LastBranch(lim) |-> p - 1]

\* Mutant of chain: the last branch tests the value of the one before it.
chain_repeated(lim) ==
    [p \in 1..(LastBranch(lim) + 1) |->
        IF p = LastBranch(lim) + 1 THEN LastBranch(lim) - 1 ELSE p - 1]

\* The chain "if constexpr(data_member_count<T> == 0) ... else if
\* constexpr(data_member_count<T> == 1) ..." of the variant: the values
\* tested, in the order written.
chain(lim) == [p \in 1..(LastBranch(lim) + 1) |-> p - 1]

\* The positions of the chain whose test is true for count c; the first of
\* them is the branch instantiated.
matching(lim, c) == {p \in DOMAIN chain(lim) : chain(lim)[p] = c}

\* The values N for which the chain of the variant has a branch.
Branches(lim) == {chain(lim)[p] : p \in DOMAIN chain(lim)}

\* Mutant of bindings: the first two identifiers are exchanged.
bindings_swapped(N) ==
    [j \in 1..N |-> IF N >= 2 /\ j = 1 THEN 1
                    ELSE IF N >= 2 /\ j = 2 THEN 0 ELSE j - 1]

\* The identifiers of branch N, in the order written in
\* "auto& [e00, e01, ...] = x": the identifier eXY is represented by the
\* number its two hexadecimal digits XY denote.
bindings(N) == [j \in 1..N |-> j - 1]

\* Mutant of tied: the last identifier is missing.
tied_short(N) == [i \in 1..(N - 1) |-> i - 1]

\* The identifiers of branch N in the order written in
\* "return std::tie(e00, e01, ...)".
tied(N) == [i \in 1..N |-> i - 1]

\* The first storage unit of the j-th declared member.
MemberUnit(e, j) == 1 + Units(SubSeq(e, 1, j - 1))

\* A reference: the object it refers into and the storage unit in it.
Ref(obj, u) == [obj |-> obj, unit |-> u]

\* Mutant of param: reflect(T x), the parameter is a copy that lives in the
\* activation.
param_by_value(obj, frame) == IF frame = 1 THEN "copy1" ELSE "copy2"

\* reflect(T& x): the parameter is a reference, so in every activation of
\* the function x designates the caller's object.
param(obj, frame) == obj

\* Mutant of binding_object: "auto [e00, ...] = x", the identifiers name the
\* members of a copy of x that lives in the activation.
binding_by_value(obj, frame) == IF frame = 1 THEN "local1" ELSE "local2"

\* "auto& [e00, ...] = x": the identifiers name the members of the object x
\* designates.
binding_object(obj, frame) == obj

\* Mutant of requires_clause: the ceiling is off by one.
requires_clause_off(c, lim) == c <= lim + 1

\* requires(data_member_count<T> <= limit)
requires_clause(c, lim) == c <= lim

\* The diagnostic of instantiating the body of reflect for count c, "none"
\* when it is well-formed.
\*   "void"     no branch matches: the function returns nothing
\*   "binding"  the number of identifiers of the structured binding
\*              differs from the number of non-static data members
\*   "tie"      std::tie cannot bind a non-const reference to a bit-field
reflect_diag(t, lim, c) ==
    IF c \notin Branches(lim) THEN "void"
    ELSE IF c = 0 THEN "none"
    ELSE IF Len(bindings(c)) # MemberCount(t) THEN "binding"
    ELSE IF t.bit_fields THEN "tie"
    ELSE "none"

\* The tuple reflect returns for count c: the structured binding binds the
\* j-th identifier to the j-th member of the object, std::tie makes a tuple
\* of references to its arguments in the order given.
reflect(t, c, obj, frame) ==
    IF c = 0 THEN <<>>
    ELSE LET names == bindings(c)
             e     == binding_object(param(obj, frame), frame)
             bound == [j \in 1..c |-> Ref(e, MemberUnit(t.extents, j))]
             args  == tied(c)
         IN  [i \in 1..Len(args) |->
                 bound[CHOOSE j \in 1..c : names[j] = args[i]]]

\* Reading and assigning through a reference.
Load(mem, ref) ==
    IF ref.obj = "x" /\ ref.unit \in DOMAIN mem THEN mem[ref.unit] ELSE -1

Store(mem, ref, v) ==
    IF ref.obj = "x" /\ ref.unit \in DOMAIN mem
    THEN [mem EXCEPT ![ref.unit] = v]
    ELSE mem

NewValues == {0 - v : v \in 1..MaxNewValues}

----------------------------------------------------------------------------
(* Actions.                                                                *)

Truth(b) == IF b THEN "true" ELSE "false"

\* The usage site evaluates the concept itself: reflexible<T>.
EvalReflexible ==
    /\ pc = "start" /\ op = "is_reflexible"
    /\ answer' = Truth(reflexible(T))
    /\ pc' = "done"
    /\ UNCHANGED <<conv, T, limit, op, diag, L, M, R, probes, count, x, r1, r2,
                   calls, writes, last>>

\* "template <reflexible T>" of data_member_count and of reflect: the
\* constraint is checked before anything is instantiated.
CheckConstraint ==
    /\ pc = "start" /\ op # "is_reflexible"
    /\ answer' = Truth(reflexible(T))
    /\ IF constraint(T)
       THEN pc' = "satisfied" /\ diag' = diag
       ELSE pc' = "error" /\ diag' = "constraint"
    /\ UNCHANGED <<conv, T, limit, op, L, M, R, probes, count, x, r1, r2, calls,
                   writes, last>>

\* detail::count_data_members<T>() up to its call of bisect.
count_data_members ==
    /\ pc = "satisfied"
    /\ IF static_assert_holds(T)
       THEN /\ L' = 0
            /\ M' = median(0, bit_size(T))
            /\ R' = bit_size(T)
            /\ pc' = "bisect" /\ diag' = diag
       ELSE /\ pc' = "error" /\ diag' = "static_assert"
            /\ UNCHANGED <<L, M, R>>
    /\ UNCHANGED <<conv, T, limit, op, answer, probes, count, x, r1, r2, calls,
                   writes, last>>

\* bisect<T, L, M, R> with L # R: one more instantiation.
BisectStep ==
    /\ pc = "bisect" /\ L # R
    /\ probes' = Append(probes, M)
    /\ LET next == bisect(T, L, M, R)
       IN  L' = next[1] /\ M' = next[2] /\ R' = next[3]
    /\ UNCHANGED <<conv, T, limit, op, pc, diag, answer, count, x, r1, r2, calls,
                   writes, last>>

\* bisect<T, L, M, R> with L == R returns L, which becomes
\* data_member_count<T>.
BisectReturn ==
    /\ pc = "bisect" /\ L = R
    /\ count' = L
    /\ pc' = IF op = "member_count" THEN "done" ELSE "counted"
    /\ UNCHANGED <<conv, T, limit, op, diag, answer, L, M, R, probes, x, r1, r2,
                   calls, writes, last>>

\* reflect's requires-clause, then the instantiation of its body.
InstantiateReflect ==
    /\ pc = "counted"
    /\ IF ~requires_clause(count, limit)
       THEN pc' = "error" /\ diag' = "requires"
       ELSE IF reflect_diag(T, limit, count) # "none"
       THEN pc' = "error" /\ diag' = reflect_diag(T, limit, count)
       ELSE pc' = "run" /\ diag' = diag
    /\ UNCHANGED <<conv, T, limit, op, answer, L, M, R, probes, count, x, r1, r2,
                   calls, writes, last>>

\* The program calls reflect(x), a first and a second time.
CallReflect ==
    /\ pc = "run" /\ calls < 2
    /\ IF calls = 0
       THEN r1' = reflect(T, count, "x", calls + 1) /\ r2' = r2
       ELSE r2' = reflect(T, count, "x", calls + 1) /\ r1' = r1
    /\ calls' = calls + 1
    /\ UNCHANGED <<conv, T, limit, op, pc, diag, answer, L, M, R, probes, count, x,
                   writes, last>>

\* The program assigns v through element i of the first tuple.
Assign(i, v) ==
    /\ pc = "run" /\ calls >= 1 /\ writes < MaxWrites
    /\ i \in 1..Len(r1)
    /\ x' = Store(x, r1[i], v)
    /\ last' = [elem |-> i, value |-> v, before |-> x]
    /\ writes' = writes + 1
    /\ UNCHANGED <<conv, T, limit, op, pc, diag, answer, L, M, R, probes, count,
                   r1, r2, calls>>

Next ==
    \/ EvalReflexible
    \/ CheckConstraint
    \/ count_data_members
    \/ BisectStep
    \/ BisectReturn
    \/ InstantiateReflect
    \/ CallReflect

Spec == Init /\ [][Next]_vars

\* The same program with instances that are written through.
InitRun == InitOver(RunTypes)

\* The compiler evaluates a constant expression to its end: an operation
\* that can take a step takes it.
SpecFair == Spec /\ WF_vars(Next)

\* Reflexible types known by their size and by the verdicts of the compiler
\* on their braced initializations alone: any set of lengths is accepted.
OracleTypes ==
    {[accepts |-> a, user_ctor |-> t.user_ctor, non_public |-> t.non_public,
      default_init |-> t.default_init, copy_ctor |-> t.copy_ctor,
      move_ctor |-> t.move_ctor, extents |-> t.extents,
      bit_fields |-> t.bit_fields, no_unique |-> t.no_unique,
      size |-> t.size] :
        a \in SUBSET (1..MaxAccepted),
        t \in TypesOver({PlainTraits}, {<<>>}) \cap
                  {u \in Types : ~u.bit_fields /\ ~u.no_unique}}

\* data_member_count<T> is named for such a type.
InitOracle ==
    /\ InitOver(OracleTypes)
    /\ op = "member_count"

\* The steps of data_member_count<T>.
NextCount ==
    \/ CheckConstraint
    \/ count_data_members
    \/ BisectStep
    \/ BisectReturn

SpecOracle == InitOracle /\ [][NextCount]_vars

SpecOracleFair == SpecOracle /\ WF_vars(NextCount)

\* The values of sizeof around every point where sizeof(T) * CHAR_BIT
\* passes a multiple of 2^SizeWidth.
WideSizes ==
    {k * (SizeMod \div CHAR_BIT) + d :
        k \in 0..CHAR_BIT, d \in (0 - MaxOffset)..MaxOffset}
    \cap (1..(SizeMod - 1))

\* Ordinary structs with one member, of every such size.
WideTypes ==
    {[MakeType(PlainTraits, <<1>>, <<FALSE, FALSE>>, 0) EXCEPT !.size = s] :
        s \in WideSizes}

\* data_member_count<T> is named for such a type.
InitWide ==
    /\ InitOver(WideTypes)
    /\ op = "member_count"

SpecWide == InitWide /\ [][NextCount]_vars

\* The size_t values at both ends of the range and around its middle, where
\* L + R passes 2^SizeWidth.
EdgeValues ==
    (0..MaxOffset)
    \cup ((SizeMod \div 2 - MaxOffset)..(SizeMod \div 2 + MaxOffset))
    \cup ((SizeMod - 1 - MaxOffset)..(SizeMod - 1))

\* median<L, R> is named with any two such values.
InitMedian ==
    /\ T \in {t \in WideTypes : t.size = 1}
    /\ limit = LimitHeader
    /\ op = "member_count"
    /\ pc = "median"
    /\ diag = "none"
    /\ answer = "none"
    /\ L \in EdgeValues /\ R \in EdgeValues /\ M = 0
    /\ probes = <<>>
    /\ count = -1
    /\ x = InitInstance(T)
    /\ r1 = <<>> /\ r2 = <<>>
    /\ calls = 0
    /\ writes = 0
    /\ last = NoWrite
    /\ conv = NoConv

\* The constant median<L, R> is evaluated.
EvalMedian ==
    /\ pc = "median"
    /\ M' = median(L, R)
    /\ pc' = "evaluated"
    /\ UNCHANGED <<conv, T, limit, op, diag, answer, L, R, probes, count, x,
                   r1, r2, calls, writes, last>>

NextMedian == EvalMedian

SpecMedian == InitMedian /\ [][NextMedian]_vars

\* A usage site asks for the conversion of universal<T, I> to a type.
InitConv ==
    /\ T \in {t \in RunTypes : reflexible(t) /\ MemberCount(t) <= 1}
    /\ limit = LimitHeader
    /\ op = "member_count"
    /\ pc = "start"
    /\ diag = "none"
    /\ answer = "none"
    /\ L = 0 /\ M = 0 /\ R = 0
    /\ probes = <<>>
    /\ count = -1
    /\ x = InitInstance(T)
    /\ r1 = <<>> /\ r2 = <<>>
    /\ calls = 0
    /\ writes = 0
    /\ last = NoWrite
    /\ conv \in [target : Targets, slot : 0..MaxSlot, result : {"pending"}]

\* The implicit conversion of the probe to the target type is resolved.
Convert ==
    /\ conv.result = "pending"
    /\ conv' = [conv EXCEPT !.result =
                    IF universal_converts(conv.target)
                    THEN "converted" ELSE "ill_formed"]
    /\ UNCHANGED <<T, limit, op, pc, diag, answer, L, M, R, probes, count,
                   x, r1, r2, calls, writes, last>>

NextConv == Convert

SpecConv == InitConv /\ [][NextConv]_vars

NextRun ==
    \/ Next
    \/ \E i \in 1..MaxRunMembers, v \in NewValues : Assign(i, v)

SpecRun == InitRun /\ [][NextRun]_vars

----------------------------------------------------------------------------
(* Properties.                                                             *)

\* The constructibility test of t is true exactly for the lengths up to the
\* number of declared members, over the whole search interval.
ExactTest(t) ==
    \A n \in 0..bit_size(t) : is_constructible(t, n) <=> n <= MemberCount(t)

Counted == count # -1

\* C1: for a reflexible type with k members whose constructibility test is
\* true exactly for the lengths <= k, and k <= sizeof(T) * CHAR_BIT, the
\* search returns data_member_count<T> = k.
C1_CountIsExact ==
    Counted =>
        \/ count = MemberCount(T)
        \/ MemberCount(T) > bit_size(T)
        \/ ~ExactTest(T)

C1_Witness ==
    /\ pc = "done" /\ op = "member_count"
    /\ count > LimitModule
    /\ T.bit_fields
    /\ MemberCount(T) = bit_size(T)
    /\ ExactTest(T)

\* C2: every tuple reflect returns has exactly data_member_count<T>
\* elements.
C2_LengthIsCount ==
    /\ calls >= 1 => Len(r1) = count
    /\ calls >= 2 => Len(r2) = count

C2_Witness == calls = 2 /\ Len(r1) = LimitHeader /\ Len(r2) = LimitHeader

\* C3: element i of the tuple reflect returns refers to the i-th declared
\* member of x, for every arity and every i.
C3_DeclarationOrder ==
    calls >= 1 =>
        \A i \in 1..MemberCount(T) :
            /\ i \in DOMAIN r1
            /\ r1[i] = Ref("x", MemberUnit(T.extents, i))

C3_Witness ==
    /\ calls >= 1 /\ MemberCount(T) = LimitHeader
    /\ r1[LimitHeader] = Ref("x", LimitHeader)
    /\ Load(x, r1[LimitModule]) = LimitModule

\* C4: after an assignment of v through element i of r = reflect(x), the
\* i-th member of x is v, every other member of x is as before, and so is
\* the value seen through every other element of r.
C4_AssignFrame ==
    writes >= 1 =>
        /\ x[MemberUnit(T.extents, last.elem)] = last.value
        /\ \A u \in DOMAIN x \ {MemberUnit(T.extents, last.elem)} :
               x[u] = last.before[u]
        /\ \A j \in (1..Len(r1)) \ {last.elem} :
               Load(x, r1[j]) = Load(last.before, r1[j])

C4_Witness ==
    /\ writes = 2 /\ last.elem = 1 /\ MemberCount(T) = 3
    /\ x[1] = last.value /\ x[2] = 2 /\ last.before[3] # 3

\* C5: the elements of the tuples of two reflect calls on the same live
\* instance refer to the same storage, whatever was written in between.
C5_SameStorage ==
    calls = 2 =>
        /\ Len(r1) = Len(r2)
        /\ \A i \in 1..Len(r1) :
               /\ r1[i] = r2[i]
               /\ r2[i].obj = "x"
               /\ Load(x, r2[i]) = x[MemberUnit(T.extents, i)]

C5_Witness ==
    /\ calls = 2 /\ writes = 2 /\ Len(r2) = 2
    /\ Load(x, r2[2]) = last.value

\* C6: for a reflexible type without data members every probed length is
\* at least 1 and fails, the search returns 0 and reflect returns the
\* empty tuple.
C6_EmptyAggregate ==
    (reflexible(T) /\ MemberCount(T) = 0) =>
        /\ pc # "error"
        /\ \A i \in 1..Len(probes) :
               probes[i] >= 1 /\ ~is_constructible(T, probes[i])
        /\ Counted => count = 0
        /\ calls >= 1 => r1 = <<>>
        /\ calls >= 2 => r2 = <<>>

C6_Witness ==
    /\ reflexible(T) /\ MemberCount(T) = 0
    /\ count = 0 /\ Len(probes) >= 2 /\ calls = 1 /\ r1 = <<>>

\* An ordinary struct whose members are neither arrays nor bit-fields nor
\* empty members that share their address.
Plain(t) ==
    /\ reflexible(t) /\ ~t.bit_fields /\ ~t.no_unique
    /\ \A j \in 1..MemberCount(t) : t.extents[j] = 1

C8_ReflexibleIff ==
    /\ answer = "true" =>
           /\ is_aggregate_v(T) /\ T.default_init
           /\ T.copy_ctor \/ T.move_ctor
    /\ answer = "false" =>
           \/ ~is_aggregate_v(T) \/ ~T.default_init
           \/ (~T.copy_ctor /\ ~T.move_ctor)

C8_Witness ==
    /\ op = "is_reflexible" /\ answer = "true"
    /\ ~T.copy_ctor /\ T.move_ctor

\* C9: a type with a user-declared constructor is never classified as
\* reflexible.
C9_UserCtorRejected ==
    (T.user_ctor /\ answer # "none") => answer = "false"

C9_Witness ==
    /\ op = "is_reflexible" /\ answer = "false"
    /\ T.user_ctor /\ ~T.non_public /\ T.default_init /\ T.copy_ctor
    /\ MemberCount(T) = MaxMembers

Used == pc # "start"

\* C10 as stated: each of the three operations, given a type that is not
\* reflexible, ends in a compile-time failure.
C10_AllThreeFail ==
    (~reflexible(T) /\ Used) => pc = "error"

\* C10, amended: data_member_count and reflect, given a type that is not
\* reflexible, end in a compile-time failure of their constraint and yield
\* nothing; the concept itself yields false.
C10_ConstrainedFail ==
    (~reflexible(T) /\ Used) =>
        IF op = "is_reflexible"
        THEN pc = "done" /\ answer = "false"
        ELSE /\ pc = "error" /\ diag = "constraint"
             /\ ~Counted /\ calls = 0

C10_Witness ==
    /\ ~reflexible(T) /\ op = "reflect"
    /\ pc = "error" /\ diag = "constraint"
    /\ is_aggregate_v(T) /\ ~T.default_init

\* C11 as stated: data_member_count<T> yields no value for a type with more
\* members than the ceiling of the variant.
C11_CounterHasCeiling ==
    (reflexible(T) /\ MemberCount(T) > limit) => ~Counted

\* C11, amended: the counter has no ceiling.  Given an eligible type it
\* fails only on its static_assert; otherwise it yields a value, which is the
\* exact count (test exact, count within the bit size) also above the
\* ceiling.
C11_CounterHasNoCeiling ==
    /\ (op = "member_count" /\ reflexible(T) /\ pc = "error") =>
           diag = "static_assert"
    /\ (op = "member_count" /\ Counted /\ MemberCount(T) > limit) =>
           /\ pc = "done"
           /\ \/ count = MemberCount(T)
              \/ MemberCount(T) > bit_size(T)
              \/ ~ExactTest(T)

C11_Witness ==
    /\ op = "member_count" /\ pc = "done"
    /\ limit = LimitHeader
    /\ MemberCount(T) = LimitHeader + 1 /\ count = LimitHeader + 1

\* The diagnostics of a compile-time failure.
CompileDiagnostics ==
    {"constraint", "static_assert", "requires", "binding", "tie"}

\* C12: every operation ends in a compile-time failure or in a valid result:
\* a failure is a compiler diagnostic issued before anything ran, the concept
\* yields a truth value, the counter a count within its search interval, and
\* reflect, for every count its requires-clause admits, finds a branch (it
\* never falls off the chain without a return) and returns references into
\* the live instance.
C12_NoRuntimeError ==
    /\ pc = "error" =>
           /\ diag \in CompileDiagnostics
           /\ calls = 0 /\ writes = 0
    /\ (pc = "done" /\ op = "is_reflexible") => answer \in {"true", "false"}
    /\ (pc = "done" /\ op = "member_count") => count \in 0..bit_size(T)
    /\ (op = "reflect" /\ Counted /\ requires_clause(count, limit)) =>
           reflect_diag(T, limit, count) # "void"
    /\ calls >= 1 =>
           /\ pc = "run" /\ diag = "none"
           /\ \A i \in 1..Len(r1) :
                  r1[i].obj = "x" /\ r1[i].unit \in DOMAIN x

C12_Witness ==
    /\ calls = 2 /\ pc = "run"
    /\ limit = LimitModule /\ count = LimitModule
    /\ Len(r2) = LimitModule

\* The other shipped variant of the one that was built.
OtherVariant == CHOOSE l \in Limits : l # limit

\* What instantiating reflect<T> gives in the variant of ceiling lim when
\* data_member_count<T> is c: the diagnostic, "none" for a tuple.
ReflectOutcome(t, c, lim) ==
    IF ~requires_clause(c, lim) THEN "requires" ELSE reflect_diag(t, lim, c)

ReflectSettled == op = "reflect" /\ Counted /\ pc \in {"run", "error"}

Returned == IF calls = 0 THEN r1' ELSE r2'

\* C14: a call of reflect(x) leaves every member of x with the value it had
\* before the call, and every element of the tuple it returns is a reference
\* to storage of x itself, through which the value of x is read.
C14_ReflectIsPure ==
    [][calls' # calls =>
           /\ x' = x
           /\ Len(Returned) = count
           /\ \A i \in 1..Len(Returned) :
                  /\ Returned[i].obj = "x"
                  /\ Returned[i].unit \in DOMAIN x
                  /\ Load(x', Returned[i]) = x[Returned[i].unit]]_vars

C14_Witness ==
    /\ calls = 2 /\ writes = MaxWrites
    /\ x # InitInstance(T)
    /\ Len(r2) = MaxRunMembers
    /\ \A i \in 1..Len(r2) : Load(x, r2[i]) = x[i]

\* C15: the chain of the variant tests every value 0..ceiling once, in no
\* more branches than values, and for every count the requires-clause admits
\* exactly one branch is selected, the one that tests that count.
C15_ExactlyOneBranch ==
    /\ Branches(limit) = 0..limit
    /\ Len(chain(limit)) = limit + 1
    /\ (op = "reflect" /\ Counted /\ requires_clause(count, limit)) =>
           /\ Cardinality(matching(limit, count)) = 1
           /\ \A p \in matching(limit, count) : chain(limit)[p] = count
           /\ reflect_diag(T, limit, count) \in {"none", "binding", "tie"}

C15_Witness ==
    /\ op = "reflect" /\ pc = "run" /\ calls = 1
    /\ limit = LimitHeader /\ count = LimitHeader
    /\ matching(limit, count) = {LimitHeader + 1}

\* The threshold of the constructibility test of t: the test is true for
\* the lengths up to it and false above it.
Threshold(t) == Units(t.extents)

Searching == pc = "bisect" /\ Threshold(T) <= bit_size(T)

\* C16: with the threshold of the test inside [0, B], every step of the
\* search keeps L <= R and narrows the interval, the search leaves bisect
\* only with L = R, returning L, and a search that has started always ends,
\* with the interval collapsed onto the threshold.
C16_BisectTerminates ==
    /\ [][(Searching /\ <<L, M, R>>' # <<L, M, R>>) =>
              (L' <= R' /\ R' - L' < R - L /\ L' <= M' /\ M' <= R')]_vars
    /\ [][(pc = "bisect" /\ pc' # "bisect") => (L = R /\ count' = L)]_vars
    /\ Searching ~> (Counted /\ L = R /\ count = L /\ count = Threshold(T))

C16_Witness ==
    /\ op = "member_count" /\ pc = "done"
    /\ Threshold(T) = LimitHeader /\ bit_size(T) >= CHAR_BIT * LimitHeader
    /\ L = R /\ count = LimitHeader
    /\ Len(probes) >= 10

\* The search has been started and has made no probe yet.
SearchStarted == pc = "bisect" /\ probes = <<>>

\* C17: the interval the search starts with is [0, sizeof(T) * CHAR_BIT],
\* and the number of members of the reflexible type lies inside it.
C17_BoundCoversCount ==
    SearchStarted =>
        /\ reflexible(T)
        /\ L = 0 /\ R = bit_size(T)
        /\ MemberCount(T) \in L..R

\* C18: for the reflexible type the search is started for, with N members,
\* is_constructible<T, k> is true for every k in [0, N] and false for every
\* k in (N, sizeof(T) * CHAR_BIT].
C18_TestIsExact ==
    (SearchStarted /\ reflexible(T)) =>
        \A k \in 0..bit_size(T) :
            is_constructible(T, k) <=> k <= MemberCount(T)

\* C19: a probe universal<T, I> converts to a type U exactly when U without
\* its cv-qualifiers and its reference is not T; in particular it converts
\* to none of the parameter types of the copy and move constructors of T.
C19_ConvertibleIff ==
    conv.result \in {"converted", "ill_formed"} =>
        /\ conv.result = "converted" <=> remove_cvref_t(conv.target).base # "T"
        /\ conv.target.base = "T" => conv.result = "ill_formed"

\* The places of a use of data_member_count or reflect that lie after the
\* eligibility check has passed.
PastCheck == pc \in {"satisfied", "bisect", "counted", "run"}

\* C21: a use of reflect goes through the eligibility check, then the member
\* count, then the dispatch: the search is started only from the place the
\* passed check leaves, the requires-clause is evaluated only on a computed
\* count, a tuple is returned only when reflexible<T> is true and the count
\* has been computed and is at most the ceiling, and for a type that failed
\* the check no search is ever started.
C21_OrderOfSteps ==
    /\ [](/\ (PastCheck \/ Counted) => (answer = "true" /\ reflexible(T))
          /\ pc \in {"counted", "run"} => Counted
          /\ calls >= 1 => (answer = "true" /\ Counted /\ count <= limit)
          /\ answer = "false" =>
                 (pc # "bisect" /\ probes = <<>> /\ ~Counted /\ calls = 0))
    /\ [][/\ (pc # "bisect" /\ pc' = "bisect") => pc = "satisfied"
          /\ (pc # "satisfied" /\ pc' = "satisfied") => pc = "start"
          /\ (pc # "counted" /\ pc' = "counted") => (pc = "bisect" /\ L = R)
          /\ (pc # "run" /\ pc' = "run") => pc = "counted"]_vars

C21_Witness ==
    /\ op = "reflect" /\ pc = "run" /\ calls = 1
    /\ answer = "true" /\ Len(probes) >= 2
    /\ count = MaxMembers /\ Len(r1) = count

\* C22: with the threshold N of the test inside [0, B], every instantiation
\* bisect<T, L, M, R> the search reaches has L <= N <= R, and each step
\* keeps N inside the interval whichever branch it takes.
C22_ThresholdStaysInside ==
    /\ [](Searching => (L <= Threshold(T) /\ Threshold(T) <= R))
    /\ [][(Searching /\ probes' # probes) =>
              /\ is_constructible(T, M) => (L' = M /\ R' = R)
              /\ ~is_constructible(T, M) => (L' = L /\ R' = M - 1)
              /\ L' <= Threshold(T) /\ Threshold(T) <= R']_vars

C22_Witness ==
    /\ pc = "bisect" /\ Len(probes) >= 4
    /\ Threshold(T) > LimitModule
    /\ 0 < L /\ L < Threshold(T) /\ Threshold(T) < R /\ R < bit_size(T)

Range(s) == {s[i] : i \in DOMAIN s}

\* The verdicts of the type are not those of a threshold: a length is
\* rejected below an accepted one.
NonMonotone(t) ==
    \E j, k \in 1..bit_size(t) :
        j < k /\ ~is_constructible(t, j) /\ is_constructible(t, k)

\* C23: whatever the verdicts of the test, a step of the search either
\* raises L to M > L or lowers R to M - 1 < R, so R - L decreases at every
\* step, and a search that has started ends with a count.
C23_AlwaysTerminates ==
    /\ [][probes' # probes =>
              /\ R' - L' < R - L
              /\ \/ (L' = M /\ M > L /\ R' = R)
                 \/ (R' = M - 1 /\ M - 1 < R /\ L' = L)]_vars
    /\ (pc = "bisect") ~> (pc = "done" /\ Counted /\ L = R)

C23_Witness ==
    /\ pc = "done" /\ Opaque(T) /\ NonMonotone(T)
    /\ Len(probes) >= 4
    /\ \E i, j \in 1..Len(probes) :
           /\ i < j /\ probes[i] < probes[j]
           /\ is_constructible(T, probes[i]) /\ ~is_constructible(T, probes[j])

\* C24: whatever the verdicts of the test, the count r the search over
\* [0, B] returns lies in [0, B], the test succeeded at r unless r = 0, and
\* it failed at r + 1 unless r = B; a type constructible from every length
\* up to B, as one with more than B members is, gets the count B and no
\* diagnostic.
C24_ResultBracketsVerdicts ==
    (pc = "done" /\ Counted) =>
        /\ 0 <= count /\ count <= bit_size(T)
        /\ count = 0 \/ (count \in Range(probes) /\ is_constructible(T, count))
        /\ count = bit_size(T) \/
               (count + 1 \in Range(probes) /\ ~is_constructible(T, count + 1))
        /\ (\A k \in 0..bit_size(T) : is_constructible(T, k)) =>
               (count = bit_size(T) /\ diag = "none")

C24_Witness ==
    /\ pc = "done" /\ Opaque(T) /\ NonMonotone(T)
    /\ 0 < count /\ count < bit_size(T)
    /\ \E k \in 1..bit_size(T) : k > count + 1 /\ is_constructible(T, k)
    /\ \E k \in 1..bit_size(T) : k < count /\ ~is_constructible(T, k)

\* C25: every instantiation bisect<T, L, M, R> the search reaches has
\* L <= R, and when L < R its midpoint is M = median<L, R> with L < M <= R,
\* so that M - 1 does not wrap below 0 and is not below L; a failed probe
\* makes exactly that M - 1 the right end.
C25_MidpointInside ==
    /\ [](pc = "bisect" =>
              /\ L <= R
              /\ M = median(L, R)
              /\ L < R => (/\ L < M /\ M <= R
                           /\ M - 1 >= 0 /\ Wrap(M - 1) = M - 1
                           /\ M - 1 >= L))
    /\ [][(probes' # probes /\ ~is_constructible(T, M)) =>
              (R' = M - 1 /\ L' = L /\ L' <= R')]_vars

C25_Witness ==
    /\ pc = "bisect" /\ L = 0 /\ M = 1 /\ R = 1
    /\ Len(probes) >= 3
    /\ ~is_constructible(T, M)

\* sizeof(T) * CHAR_BIT, computed without a width, fits size_t.
NoWrap(t) == t.size * CHAR_BIT < SizeMod

\* C26: the static_assert of count_data_members holds exactly when
\* sizeof(T) * CHAR_BIT did not wrap around modulo 2^w: the search is started
\* only with the bound sizeof(T) * CHAR_BIT itself, and for every size whose
\* product wraps the assertion fails and no count is produced.
C26_AssertIffNoWrap ==
    /\ static_assert_holds(T) <=> NoWrap(T)
    /\ pc \in {"bisect", "done"} =>
           /\ NoWrap(T)
           /\ bit_size(T) = T.size * CHAR_BIT
           /\ R <= bit_size(T)
    /\ ~NoWrap(T) =>
           /\ ~Counted /\ probes = <<>>
           /\ pc \in {"start", "satisfied", "error"}
           /\ pc = "error" => diag = "static_assert"
    /\ (pc = "error" /\ reflexible(T)) => ~NoWrap(T)

C26_Witness ==
    /\ pc = "error" /\ diag = "static_assert"
    /\ ~NoWrap(T)
    /\ bit_size(T) >= CHAR_BIT /\ bit_size(T) < T.size

\* floor(log2(n)) for n >= 1
FloorLog2(n) == CHOOSE k \in 0..SizeWidth : 2 ^ k <= n /\ n < 2 ^ (k + 1)

\* C27: whatever the verdicts of the test, each probe leaves an interval of
\* at most half the length, rounded down, so a search over [0, B], B >= 1,
\* evaluates the test at most floor(log2(B)) + 1 times.
C27_LogarithmicProbes ==
    /\ [][probes' # probes =>
              (Len(probes') = Len(probes) + 1 /\ R' - L' <= (R - L) \div 2)]_vars
    /\ [](bit_size(T) >= 1 => Len(probes) <= FloorLog2(bit_size(T)) + 1)

C27_Witness ==
    /\ pc = "done" /\ Opaque(T) /\ NonMonotone(T)
    /\ bit_size(T) = CHAR_BIT
    /\ Len(probes) = FloorLog2(bit_size(T)) + 1

\* C28: for all size_t values L and R, median<L, R> is ceil((L + R) / 2) of
\* unbounded arithmetic; none of the sums L / 2 + R / 2, 1 + L % 2 + R % 2
\* and their combination exceeds 2^w - 1, also when L + R does; and
\* L <= median<L, R> <= R whenever L <= R.
C28_MedianIsCeil ==
    pc = "evaluated" =>
        /\ M = CeilDiv(L + R, 2)
        /\ (L \div 2) + (R \div 2) <= SizeMod - 1
        /\ 1 + (L % 2) + (R % 2) <= SizeMod - 1
        /\ (L \div 2) + (R \div 2) + ((1 + (L % 2) + (R % 2)) \div 2)
               <= SizeMod - 1
        /\ L <= R => (L <= M /\ M <= R)

C28_Witness ==
    /\ pc = "evaluated"
    /\ L + R >= SizeMod /\ L < R
    /\ L % 2 = 1 /\ R % 2 = 0
    /\ M = CeilDiv(L + R, 2)

\* C29: during one search over [0, B] the test is evaluated only at the
\* midpoint of an interval that is not yet a single point, always at a
\* length in [1, B]: never at 0, never above B, and never twice at the same
\* length.
C29_ProbesInsideOnce ==
    /\ [](/\ \A i \in 1..Len(probes) :
                 1 <= probes[i] /\ probes[i] <= bit_size(T)
          /\ \A i, j \in 1..Len(probes) : probes[i] = probes[j] => i = j)
    /\ [][probes' # probes =>
              (L # R /\ probes' = Append(probes, M) /\ M \notin Range(probes))]_vars

C29_Witness ==
    /\ pc = "done" /\ Opaque(T) /\ NonMonotone(T)
    /\ bit_size(T) \in Range(probes)
    /\ 1 \notin Range(probes)
    /\ Len(probes) >= 4

============================================================================
